---- MODULE Spec2Model ----
(***************************************************************************)
(* Model of grpc_publisher_service.py: the platform registry, its two      *)
(* lookup functions, the refresh callback and the four RPC handlers of     *)
(* PublisherService.  Each handler is a small sequential program; one      *)
(* action of the model is one collaborator call together with the handler  *)
(* code that follows it up to the next collaborator call.                  *)
(*                                                                         *)
(* Program strings that the code takes apart (platform names, plaintexts,  *)
(* hex device ids) are sequences of one-character strings; messages are    *)
(* sequences of strings, an f-string being the concatenation of its        *)
(* pieces.  Opaque texts (vault messages, error details) are one-element   *)
(* sequences.                                                              *)
(***************************************************************************)
EXTENDS Integers, Sequences, FiniteSets, TLC

VARIABLES SUPPORTED_PLATFORMS, pc, handler, request, locals, context, returned, log,
          applied

vars == <<SUPPORTED_PLATFORMS, pc, handler, request, locals, context, returned, log, applied>>

(***************************************************************************)
(* Bounds of the model.                                                    *)
(***************************************************************************)
\* longest plaintext the vault's decrypt_payload returns
MaxLen == 7
\* most token refreshes the provider client performs during one send
MaxRefresh == 1

\* Call slots.  Spec runs one call at a time in slot MainCall.
Calls == {"call-1", "call-2"}
MainCall == "call-1"

(***************************************************************************)
(* Strings.                                                                *)
(***************************************************************************)
gmail == <<"g", "m", "a", "i", "l">>
Gmail == <<"G", "m", "a", "i", "l">>
twitter == <<"t", "w", "i", "t", "t", "e", "r">>
telegram == <<"t", "e", "l", "e", "g", "r", "a", "m">>
slack == <<"s", "l", "a", "c", "k">>
oauth2 == <<"o", "a", "u", "t", "h", "2">>
pnba == <<"p", "n", "b", "a">>
email == <<"e", "m", "a", "i", "l">>
text == <<"t", "e", "x", "t">>
message == <<"m", "e", "s", "s", "a", "g", "e">>
EmptyStr == <<>>

\* str.lower() on the letters the model uses
LowerChar(ch) ==
    CASE ch = "G" -> "g"
      [] ch = "M" -> "m"
      [] ch = "A" -> "a"
      [] ch = "I" -> "i"
      [] ch = "L" -> "l"
      [] OTHER -> ch

Lower(s) == [i \in 1..Len(s) |-> LowerChar(s[i])]

\* bytes.hex(): two lowercase hexadecimal digits per byte
HexDigits == <<"0", "1", "2", "3", "4", "5", "6", "7", "8", "9", "a", "b", "c", "d", "e", "f">>

Hex(bytes) ==
    [i \in 1..(2 * Len(bytes)) |->
        IF i % 2 = 1 THEN HexDigits[(bytes[(i + 1) \div 2] \div 16) + 1]
                     ELSE HexDigits[(bytes[i \div 2] % 16) + 1]]

\* str.split(sep): the fields between the separators, at least one field
RECURSIVE SplitFrom(_, _, _, _)
SplitFrom(s, sep, i, cur) ==
    IF i > Len(s) THEN <<cur>>
    ELSE IF s[i] = sep THEN <<cur>> \o SplitFrom(s, sep, i + 1, <<>>)
    ELSE SplitFrom(s, sep, i + 1, Append(cur, s[i]))

Split(s, sep) == SplitFrom(s, sep, 1, <<>>)

\* json.dumps / json.loads on token bundles: a serialized token is the
\* token value between braces, anything else does not parse
json_dumps(v) == <<"{", v, "}">>

IsJson(s) == Len(s) = 3 /\ s[1] = "{" /\ s[3] = "}"

json_loads(s) == s[2]

(***************************************************************************)
(* The platform registry (SUPPORTED_PLATFORMS) and its lookups.            *)
(***************************************************************************)
\* the registry as the module defines it
RegistryAtStart ==
    (gmail :> [shortcode |-> "g", service_type |-> email, protocol |-> oauth2])

\* the registry with entries added whose (protocol, service_type) pair has
\* no handler in PublishContent
RegistryExtended ==
    RegistryAtStart
    @@ (twitter :> [shortcode |-> "t", service_type |-> text, protocol |-> oauth2])
    @@ (telegram :> [shortcode |-> "T", service_type |-> message, protocol |-> pnba])

\* dict iteration order: the order of insertion
InsertionOrder == <<gmail, twitter, telegram>>

PlatformItems(reg) == SelectSeq(InsertionOrder, LAMBDA n : n \in DOMAIN reg)

\* dict.get(key): the entry, or None for an absent key
HasKey(d, k) == k \in DOMAIN d

\* bool(dict): an empty dict is falsy
Truthy(d) == DOMAIN d # {}

NotSupportedPlatformMsg(platform_name) ==
    <<"The platform '">> \o platform_name
        \o <<"' is currently not supported. Please contact the developers for more information on when this platform will be implemented.">>

NotSupportedProtocolMsg(platform_name, protocol, expected_protocol) ==
    <<"The protocol '">> \o protocol \o <<"' for platform '">> \o platform_name
        \o <<"' is currently not supported. Expected protocol: '">>
        \o expected_protocol \o <<"'.">>

NoError == <<>>

\* check_platform_supported without its comparison of the protocols
check_platform_supported_any_protocol(reg, platform_name, protocol) ==
    IF ~HasKey(reg, platform_name) \/ ~Truthy(reg[platform_name])
    THEN [raised |-> TRUE, error |-> NotSupportedPlatformMsg(platform_name)]
    ELSE [raised |-> FALSE, error |-> NoError]

\* check_platform_supported: the NotImplementedError it raises, or NoError
check_platform_supported(reg, platform_name, protocol) ==
    IF ~HasKey(reg, platform_name) \/ ~Truthy(reg[platform_name])
    THEN [raised |-> TRUE, error |-> NotSupportedPlatformMsg(platform_name)]
    ELSE LET platform_details == reg[platform_name]
             expected_protocol == IF HasKey(platform_details, "protocol")
                                  THEN platform_details["protocol"]
                                  ELSE <<"None">>
         IN IF protocol # expected_protocol
            THEN [raised |-> TRUE,
                  error |-> NotSupportedProtocolMsg(platform_name, protocol, expected_protocol)]
            ELSE [raised |-> FALSE, error |-> NoError]

\* FirstMatch without its comparison of the shortcodes
FirstMatchAny(reg, items, shortcode) ==
    IF items = <<>> THEN <<>> ELSE <<Head(items)>>

\* the first platform, in iteration order, whose shortcode is the given one
RECURSIVE FirstMatch(_, _, _)
FirstMatch(reg, items, shortcode) ==
    IF items = <<>> THEN <<>>
    ELSE IF HasKey(reg[Head(items)], "shortcode") /\ reg[Head(items)]["shortcode"] = shortcode
         THEN <<Head(items)>>
         ELSE FirstMatch(reg, Tail(items), shortcode)

\* ", ".join(f"'{details['shortcode']}' for {platform_name}" ...)
RECURSIVE AvailablePlatforms(_, _)
AvailablePlatforms(reg, items) ==
    IF items = <<>> THEN <<>>
    ELSE <<"'", reg[Head(items)]["shortcode"], "' for ">> \o Head(items)
         \o (IF Tail(items) = <<>> THEN <<>> ELSE <<", ">>)
         \o AvailablePlatforms(reg, Tail(items))

NoPlatformMsg(reg, shortcode) ==
    <<"No platform found for shortcode '", shortcode, "'. Available shortcodes: ">>
        \o AvailablePlatforms(reg, PlatformItems(reg))

NoInfo == [none |-> TRUE]

\* details["name"] = platform_name, on the registry's own entry
WithName(details, platform_name) == ("name" :> platform_name) @@ details

\* get_platform_details_by_shortcode: (details, error_message) and the
\* registry as the call leaves it
get_platform_details_by_shortcode(reg, shortcode) ==
    LET hit == FirstMatch(reg, PlatformItems(reg), shortcode)
    IN IF hit # <<>>
       THEN [found |-> TRUE,
             details |-> WithName(reg[hit[1]], hit[1]),
             error_message |-> NoError,
             platforms |-> [reg EXCEPT ![hit[1]] = WithName(reg[hit[1]], hit[1])]]
       ELSE [found |-> FALSE,
             details |-> NoInfo,
             error_message |-> NoPlatformMsg(reg, shortcode),
             platforms |-> reg]

(***************************************************************************)
(* Responses and the gRPC context.                                         *)
(***************************************************************************)
\* a response message with every field at its protobuf default
EmptyResponse ==
    [success |-> FALSE, message |-> <<>>, publisher_response |-> <<>>,
     authorization_url |-> <<>>, state |-> <<>>, code_verifier |-> <<>>]

\* a context on which no status was set
CleanContext == [code |-> "OK", details |-> <<>>]

NoUserMsg == <<>>

GenericMsg == <<"Oops! Something went wrong. Please try again later.">>

\* utils.error_response(context, response, sys_msg, status_code, user_msg):
\* sets the status code and the details (the user message when one is
\* given, the system message otherwise) and returns an empty response
error_response(sys_msg, status_code, user_msg) ==
    [context |-> [code |-> status_code,
                  details |-> IF user_msg = NoUserMsg THEN sys_msg ELSE user_msg],
     response |-> EmptyResponse]

(***************************************************************************)
(* What the collaborators can answer.                                      *)
(***************************************************************************)
\* the non-OK gRPC status codes
UpstreamCodes ==
    {"CANCELLED", "UNKNOWN", "INVALID_ARGUMENT", "DEADLINE_EXCEEDED", "NOT_FOUND",
     "ALREADY_EXISTS", "PERMISSION_DENIED", "RESOURCE_EXHAUSTED", "FAILED_PRECONDITION",
     "ABORTED", "OUT_OF_RANGE", "UNIMPLEMENTED", "INTERNAL", "UNAVAILABLE", "DATA_LOSS",
     "UNAUTHENTICATED"}

UpstreamDetails == {<<"vault: connection refused">>, <<"vault: deadline exceeded">>}

VaultMessages == {<<"vault: no such entity">>, <<"vault: token not found">>}

\* a vault RPC returns (response, error): a transport error with a code and
\* details, a response with success = false and a message, or a response
\* with success = true and a value
VaultOutcomesWith(codes, details, values) ==
    [kind : {"error"}, code : codes, details : details,
     message : {<<>>}, value : {<<>>}]
    \cup [kind : {"logical"}, code : {"OK"}, details : {<<>>},
          message : VaultMessages, value : {<<>>}]
    \cup [kind : {"ok"}, code : {"OK"}, details : {<<>>},
          message : {<<>>}, value : values]

VaultOutcomes(values) == VaultOutcomesWith(UpstreamCodes, UpstreamDetails, values)

\* the answers of update_entity_token: of the transport errors, two codes
RefreshOutcomes ==
    VaultOutcomesWith({"UNAVAILABLE", "PERMISSION_DENIED"}, {<<"vault: connection refused">>},
                      {<<>>})

\* the values of one outcome, as the log keeps them
OutcomeData(o) ==
    CASE o.kind = "error" -> <<<<o.code>>, o.details>>
      [] o.kind = "logical" -> <<o.message>>
      [] OTHER -> <<o.value>>

\* request.content: absent, or the bytes of a relay payload
Contents == {<<>>, <<"relay-payload">>}

Shortcodes == {"g", "t", "T", "x"}

\* device identifiers, as bytes
DeviceIds == {<<171>>, <<1, 16>>}

\* decode_relay_sms_payload returns
\* (platform_letter, encrypted_content, device_id, decode_error)
DecodeOutcomes ==
    [ok : {FALSE}, platform_letter : {""}, device_id : {<<>>},
     decode_error : {<<"relay payload: malformed segment">>}]
    \cup [ok : {TRUE}, platform_letter : Shortcodes, device_id : DeviceIds,
          decode_error : {NoError}]

RECURSIVE StringsUpTo(_)
StringsUpTo(n) ==
    IF n = 0 THEN {<<>>}
    ELSE LET shorter == StringsUpTo(n - 1)
         IN shorter \cup {Append(s, ch) : s \in {t \in shorter : Len(t) = n - 1},
                                           ch \in {"a", ":"}}

\* the plaintexts decrypt_payload can return
Plaintexts == StringsUpTo(MaxLen)

\* the serialized tokens the vault can hold: token bundles, or text that
\* is not JSON
StoredTokens == {json_dumps("token-1"), <<"not json">>}

\* the tokens a refresh can produce
RefreshedTokens == {"token-2", "token-3"}

SendResults == {<<"provider: message id 1">>}

Exceptions == {<<"provider: connection reset by peer">>}

\* a call of the provider client or of a utility returns or raises
CallOutcomes(values) ==
    [kind : {"raise"}, value : Exceptions] \cup [kind : {"ok"}, value : values]

(***************************************************************************)
(* The log of collaborator calls of each RPC call, in call order: the      *)
(* operation, its arguments, how it ended and what it answered.            *)
(***************************************************************************)
Entry(op, args, result, out) == [op |-> op, args |-> args, result |-> result, out |-> out]

EmptyRequest ==
    [content |-> <<>>, platform |-> <<>>, long_lived_token |-> <<>>,
     account_identifier |-> <<>>, authorization_code |-> <<>>]

EmptyLocals ==
    [platform_letter |-> "", device_id |-> <<>>, platform_info |-> NoInfo,
     decrypted_content |-> <<>>, access_token |-> <<>>, from_email |-> <<>>,
     message_response |-> <<>>, refreshes |-> 0,
     token |-> "", profile |-> [email |-> <<>>, username |-> <<>>],
     update_token |-> [device_id |-> <<>>, account_identifier |-> <<>>, platform_name |-> <<>>]]

Init ==
    /\ SUPPORTED_PLATFORMS = RegistryAtStart
    /\ pc = [c \in Calls |-> "idle"]
    /\ handler = [c \in Calls |-> "none"]
    /\ request = [c \in Calls |-> EmptyRequest]
    /\ locals = [c \in Calls |-> EmptyLocals]
    /\ context = [c \in Calls |-> CleanContext]
    /\ returned = [c \in Calls |-> EmptyResponse]
    /\ log = [c \in Calls |-> <<>>]
    /\ applied = <<>>

\* a new RPC arrives in slot c
Begin(c, h, req) ==
    /\ pc[c] = "idle"
    /\ pc' = [pc EXCEPT ![c] = "validate_fields"]
    /\ handler' = [handler EXCEPT ![c] = h]
    /\ request' = [request EXCEPT ![c] = req]
    /\ locals' = [locals EXCEPT ![c] = EmptyLocals]
    /\ context' = [context EXCEPT ![c] = CleanContext]
    /\ returned' = [returned EXCEPT ![c] = EmptyResponse]
    /\ log' = [log EXCEPT ![c] = <<>>]
    /\ UNCHANGED <<SUPPORTED_PLATFORMS, applied>>

\* the servicer has handed the returned response and the status of the
\* context to gRPC; nothing of the call is kept
Respond(c) ==
    /\ pc[c] = "done"
    /\ pc' = [pc EXCEPT ![c] = "idle"]
    /\ handler' = [handler EXCEPT ![c] = "none"]
    /\ request' = [request EXCEPT ![c] = EmptyRequest]
    /\ locals' = [locals EXCEPT ![c] = EmptyLocals]
    /\ context' = [context EXCEPT ![c] = CleanContext]
    /\ returned' = [returned EXCEPT ![c] = EmptyResponse]
    /\ log' = [log EXCEPT ![c] = <<>>]
    /\ applied' = SelectSeq(applied, LAMBDA a : a.call # c)
    /\ UNCHANGED SUPPORTED_PLATFORMS

At(c, h, l) == handler[c] = h /\ pc[c] = l

\* the handler calls a collaborator and goes on
Continue(c, l, entries, newLocals) ==
    /\ pc' = [pc EXCEPT ![c] = l]
    /\ log' = [log EXCEPT ![c] = @ \o entries]
    /\ locals' = [locals EXCEPT ![c] = newLocals]
    /\ UNCHANGED <<handler, request, context, returned>>

\* the handler returns resp, having set the context to ctx
Return(c, entries, ctx, resp) ==
    /\ pc' = [pc EXCEPT ![c] = "done"]
    /\ log' = [log EXCEPT ![c] = @ \o entries]
    /\ context' = [context EXCEPT ![c] = ctx]
    /\ returned' = [returned EXCEPT ![c] = resp]
    /\ UNCHANGED <<handler, request, locals>>

\* return error_response(context, response, ...)
ReturnError(c, entries, er) == Return(c, entries, er.context, er.response)

\* except Exception as exc: the outer boundary of every handler
\* InternalError with no user_msg
InternalErrorLeaking(exc) == error_response(exc, "INTERNAL", NoUserMsg)

InternalError(exc) == error_response(exc, "INTERNAL", GenericMsg)

\* utils.validate_request_fields: the required fields that are empty
MissingFields(req, fields) == SelectSeq(fields, LAMBDA f : req[f] = <<>>)

MissingFieldsMsg(missing) == <<"Missing required fields: ">> \o missing

\* the first action of every handler: validate_fields()
ValidateFields(c, h, fields, next) ==
    /\ At(c, h, "validate_fields")
    /\ LET missing == MissingFields(request[c], fields)
       IN IF missing # <<>>
          THEN /\ ReturnError(c, <<Entry("validate_request_fields", <<fields>>, "error", <<missing>>)>>,
                              error_response(MissingFieldsMsg(missing), "INVALID_ARGUMENT", NoUserMsg))
               /\ UNCHANGED <<SUPPORTED_PLATFORMS, applied>>
          ELSE /\ Continue(c, next, <<Entry("validate_request_fields", <<fields>>, "ok", <<>>)>>, locals[c])
               /\ UNCHANGED <<SUPPORTED_PLATFORMS, applied>>

(***************************************************************************)
(* PublishContent.                                                         *)
(***************************************************************************)
BeginPublishContent(c) ==
    \E content \in Contents :
        Begin(c, "PublishContent", [EmptyRequest EXCEPT !.content = content])

PublishValidate(c) ==
    ValidateFields(c, "PublishContent", <<"content">>, "decode_payload")

InvalidContentMsg == <<"Invalid content format.">>

\* decode_payload()
PublishDecode(c) ==
    /\ At(c, "PublishContent", "decode_payload")
    /\ \E o \in DecodeOutcomes :
        IF ~o.ok
        THEN ReturnError(c, <<Entry("decode_relay_sms_payload", <<request[c].content>>,
                                    "error", <<o.decode_error>>)>>,
                         error_response(o.decode_error, "INVALID_ARGUMENT", InvalidContentMsg))
        ELSE Continue(c, "get_platform_info",
                      <<Entry("decode_relay_sms_payload", <<request[c].content>>,
                              "ok", <<<<o.platform_letter>>, Hex(o.device_id)>>)>>,
                      [locals[c] EXCEPT !.platform_letter = o.platform_letter,
                                        !.device_id = o.device_id])
    /\ UNCHANGED <<SUPPORTED_PLATFORMS, applied>>

\* get_platform_info(platform_letter)
PublishResolve(c) ==
    /\ At(c, "PublishContent", "get_platform_info")
    /\ LET r == get_platform_details_by_shortcode(SUPPORTED_PLATFORMS, locals[c].platform_letter)
           args == <<<<locals[c].platform_letter>>>>
       IN /\ SUPPORTED_PLATFORMS' = r.platforms
          /\ IF ~r.found
             THEN ReturnError(c, <<Entry("get_platform_details_by_shortcode", args,
                                         "error", <<r.error_message>>)>>,
                              error_response(r.error_message, "INVALID_ARGUMENT", NoUserMsg))
             ELSE Continue(c, "decrypt_message",
                           <<Entry("get_platform_details_by_shortcode", args,
                                   "ok", <<r.details["name"]>>)>>,
                           [locals[c] EXCEPT !.platform_info = r.details])
    /\ UNCHANGED applied

\* VaultFailure with a logical failure turned into an INTERNAL error
VaultFailureLogicalAsInternal(ctx, o) ==
    IF o.kind = "error"
    THEN error_response(o.details, o.code, NoUserMsg)
    ELSE error_response(o.message, "INTERNAL", GenericMsg)

\* VaultFailure with every transport error reported as INTERNAL
VaultFailureCodeAsInternal(ctx, o) ==
    IF o.kind = "error"
    THEN error_response(o.details, "INTERNAL", NoUserMsg)
    ELSE [context |-> ctx,
          response |-> [EmptyResponse EXCEPT !.message = o.message, !.success = FALSE]]

\* what a handler does with the (response, error) pair of a vault RPC that
\* it checks both ways: the error response to return, if any
VaultFailure(ctx, o) ==
    IF o.kind = "error"
    THEN error_response(o.details, o.code, NoUserMsg)
    ELSE [context |-> ctx,
          response |-> [EmptyResponse EXCEPT !.message = o.message, !.success = FALSE]]

\* PublishDecrypt without the return on decrypt_error
PublishDecryptNoReturn(c) ==
    /\ At(c, "PublishContent", "decrypt_message")
    /\ \E o \in VaultOutcomes(Plaintexts) :
        Continue(c, "get_access_token",
                 <<Entry("decrypt_payload", <<Hex(locals[c].device_id)>>, o.kind, OutcomeData(o))>>,
                 [locals[c] EXCEPT !.decrypted_content = o.value])
    /\ UNCHANGED <<SUPPORTED_PLATFORMS, applied>>

\* decrypt_message(device_id, encrypted_content); the ciphertext argument
\* is not kept in the log
PublishDecrypt(c) ==
    /\ At(c, "PublishContent", "decrypt_message")
    /\ \E o \in VaultOutcomes(Plaintexts) :
        LET e == Entry("decrypt_payload", <<Hex(locals[c].device_id)>>, o.kind, OutcomeData(o))
        IN IF o.kind # "ok"
           THEN ReturnError(c, <<e>>, VaultFailure(context[c], o))
           ELSE Continue(c, "get_access_token", <<e>>,
                         [locals[c] EXCEPT !.decrypted_content = o.value])
    /\ UNCHANGED <<SUPPORTED_PLATFORMS, applied>>

\* AccountIdentifier without the split
AccountIdentifierUnsplit(decrypted_content) == decrypted_content

\* decrypted_content.split(":")[0]
AccountIdentifier(decrypted_content) == Split(decrypted_content, ":")[1]

\* the condition under which PublishContent calls handle_oauth2_email
HasHandler(platform_info) ==
    platform_info["protocol"] = oauth2 /\ platform_info["service_type"] = email

\* PublishedResponse naming the platform by its shortcode
PublishedResponseShortcode(platform_info, message_response) ==
    [EmptyResponse EXCEPT
        !.message = <<"Successfully published ", platform_info["shortcode"], " message">>,
        !.publisher_response = message_response,
        !.success = TRUE]

\* the response PublishContent ends with
PublishedResponse(platform_info, message_response) ==
    [EmptyResponse EXCEPT
        !.message = <<"Successfully published ">> \o platform_info["name"] \o <<" message">>,
        !.publisher_response = message_response,
        !.success = TRUE]

\* PublishGetAccessToken without the return on get_access_token's error
PublishGetAccessTokenNoReturn(c) ==
    /\ At(c, "PublishContent", "get_access_token")
    /\ \E o \in VaultOutcomes(StoredTokens) :
        LET e == Entry("get_entity_access_token",
                       <<Hex(locals[c].device_id), locals[c].platform_info["name"],
                         AccountIdentifier(locals[c].decrypted_content)>>,
                       o.kind, OutcomeData(o))
        IN IF HasHandler(locals[c].platform_info)
           THEN Continue(c, "handle_oauth2_email", <<e>>,
                         [locals[c] EXCEPT !.access_token = o.value])
           ELSE Return(c, <<e>>, context[c],
                       PublishedResponse(locals[c].platform_info, <<>>))
    /\ UNCHANGED <<SUPPORTED_PLATFORMS, applied>>

\* get_access_token(device_id, platform_info["name"], account identifier),
\* then the dispatch on (protocol, service_type)
PublishGetAccessToken(c) ==
    /\ At(c, "PublishContent", "get_access_token")
    /\ \E o \in VaultOutcomes(StoredTokens) :
        LET e == Entry("get_entity_access_token",
                       <<Hex(locals[c].device_id), locals[c].platform_info["name"],
                         AccountIdentifier(locals[c].decrypted_content)>>,
                       o.kind, OutcomeData(o))
        IN IF o.kind # "ok"
           THEN ReturnError(c, <<e>>, VaultFailure(context[c], o))
           ELSE IF HasHandler(locals[c].platform_info)
                THEN Continue(c, "handle_oauth2_email", <<e>>,
                              [locals[c] EXCEPT !.access_token = o.value])
                ELSE Return(c, <<e>>, context[c],
                            PublishedResponse(locals[c].platform_info, <<>>))
    /\ UNCHANGED <<SUPPORTED_PLATFORMS, applied>>

\* the values handle_oauth2_email unpacks from parse_email_content:
\* from_email, to_email, cc_email, bcc_email, subject, body
NumEmailFields == 6

\* utils.parse_email_content: the positional, colon-delimited fields of the
\* plaintext; it raises when fields are absent
parse_email_content(payload) ==
    LET fields == Split(payload, ":")
    IN IF Len(fields) < NumEmailFields
       THEN [kind |-> "raise", value |-> <<"parse_email_content: not enough values to unpack">>,
             from_email |-> <<>>]
       ELSE [kind |-> "ok", value |-> <<>>, from_email |-> fields[1]]

\* handle_oauth2_email, up to the email message
PublishHandleEmail(c) ==
    /\ At(c, "PublishContent", "handle_oauth2_email")
    /\ LET p == parse_email_content(locals[c].decrypted_content)
           e == Entry("parse_email_content", <<locals[c].decrypted_content>>, p.kind, <<p.value>>)
       IN IF p.kind = "raise"
          THEN ReturnError(c, <<e>>, InternalError(p.value))
          ELSE Continue(c, "OAuth2Client",
                        <<e, Entry("create_email_message", <<p.from_email>>, "ok", <<>>)>>,
                        [locals[c] EXCEPT !.from_email = p.from_email])
    /\ UNCHANGED <<SUPPORTED_PLATFORMS, applied>>

\* create_update_token_context(device_id, account_identifier, platform_name,
\* response, context): the values the returned update_token closes over
create_update_token_context(device_id, account_identifier, platform_name) ==
    [device_id |-> device_id, account_identifier |-> account_identifier,
     platform_name |-> platform_name]

JsonError == <<"json: expecting value">>

\* OAuth2Client(platform_name, json.loads(token), create_update_token_context(...))
PublishMakeClient(c) ==
    /\ At(c, "PublishContent", "OAuth2Client")
    /\ IF ~IsJson(locals[c].access_token)
       THEN ReturnError(c, <<Entry("json.loads", <<locals[c].access_token>>, "raise", <<JsonError>>)>>,
                        InternalError(JsonError))
       ELSE \E o \in CallOutcomes({<<>>}) :
            LET e == Entry("OAuth2Client",
                           <<locals[c].platform_info["name"], <<json_loads(locals[c].access_token)>>>>,
                           o.kind, <<o.value>>)
            IN IF o.kind = "raise"
               THEN ReturnError(c, <<e>>, InternalError(o.value))
               ELSE Continue(c, "send_message", <<e>>,
                             [locals[c] EXCEPT !.update_token =
                                 create_update_token_context(Hex(locals[c].device_id),
                                                             locals[c].from_email,
                                                             locals[c].platform_info["name"])])
    /\ UNCHANGED <<SUPPORTED_PLATFORMS, applied>>

\* oauth2_client.send_message(from_email, email_message) is called
PublishSend(c) ==
    /\ At(c, "PublishContent", "send_message")
    /\ Continue(c, "sending", <<Entry("send_message", <<locals[c].from_email>>, "pending", <<>>)>>,
                locals[c])
    /\ UNCHANGED <<SUPPORTED_PLATFORMS, applied>>

\* update_token(token): the update_entity_token call it makes, the context
\* as it leaves it, and the value it returns to the provider client
update_token(closure, token, ctx, o) ==
    [entry |-> Entry("update_entity_token",
                     <<closure.device_id, json_dumps(token), closure.account_identifier,
                       closure.platform_name>>,
                     o.kind, OutcomeData(o)),
     context |-> IF o.kind = "error"
                 THEN error_response(o.details, o.code, NoUserMsg).context
                 ELSE ctx,
     returns |-> IF o.kind = "error"
                 THEN error_response(o.details, o.code, NoUserMsg).response
                 ELSE IF o.kind = "logical"
                      THEN [EmptyResponse EXCEPT !.message = o.message, !.success = FALSE]
                      ELSE [EmptyResponse EXCEPT !.success = TRUE]]

\* PublishRefresh under a lock that the first refreshing call keeps
PublishRefreshLocked(c) ==
    /\ At(c, "PublishContent", "sending")
    /\ locals[c].refreshes < MaxRefresh
    /\ \A i \in 1..Len(applied) : applied[i].call = c
    /\ \E token \in RefreshedTokens, o \in RefreshOutcomes :
        LET u == update_token(locals[c].update_token, token, context[c], o)
        IN /\ log' = [log EXCEPT ![c] = Append(@, u.entry)]
           /\ context' = [context EXCEPT ![c] = u.context]
           /\ locals' = [locals EXCEPT ![c].refreshes = @ + 1]
           /\ applied' = Append(applied, [call |-> c, entry |-> u.entry])
    /\ UNCHANGED <<SUPPORTED_PLATFORMS, pc, handler, request, returned>>

\* during the send the provider client refreshes the token and invokes the
\* update callback; what the callback returns goes to the client, not to
\* PublishContent
PublishRefresh(c) ==
    /\ At(c, "PublishContent", "sending")
    /\ locals[c].refreshes < MaxRefresh
    /\ \E token \in RefreshedTokens, o \in RefreshOutcomes :
        LET u == update_token(locals[c].update_token, token, context[c], o)
        IN /\ log' = [log EXCEPT ![c] = Append(@, u.entry)]
           /\ context' = [context EXCEPT ![c] = u.context]
           /\ locals' = [locals EXCEPT ![c].refreshes = @ + 1]
           /\ applied' = Append(applied, [call |-> c, entry |-> u.entry])
    /\ UNCHANGED <<SUPPORTED_PLATFORMS, pc, handler, request, returned>>

\* the log with the result of the pending send_message filled in
SendDone(l, o) ==
    [i \in 1..Len(l) |->
        IF l[i].op = "send_message" /\ l[i].result = "pending"
        THEN [l[i] EXCEPT !.result = o.kind, !.out = <<o.value>>]
        ELSE l[i]]

\* send_message returns or raises, and PublishContent ends
PublishSendEnd(c) ==
    /\ At(c, "PublishContent", "sending")
    /\ \E o \in CallOutcomes(SendResults) :
        LET er == IF o.kind = "raise"
                  THEN InternalError(o.value)
                  ELSE [context |-> context[c],
                        response |-> PublishedResponse(locals[c].platform_info, o.value)]
        IN /\ pc' = [pc EXCEPT ![c] = "done"]
           /\ log' = [log EXCEPT ![c] = SendDone(@, o)]
           /\ context' = [context EXCEPT ![c] = er.context]
           /\ returned' = [returned EXCEPT ![c] = er.response]
           /\ locals' = [locals EXCEPT ![c].message_response =
                            IF o.kind = "ok" THEN o.value ELSE @]
    /\ UNCHANGED <<SUPPORTED_PLATFORMS, handler, request, applied>>

PublishContent(c) ==
    \/ BeginPublishContent(c)
    \/ PublishValidate(c)
    \/ PublishDecode(c)
    \/ PublishResolve(c)
    \/ PublishDecrypt(c)
    \/ PublishGetAccessToken(c)
    \/ PublishHandleEmail(c)
    \/ PublishMakeClient(c)
    \/ PublishSend(c)
    \/ PublishRefresh(c)
    \/ PublishSendEnd(c)

(***************************************************************************)
(* The three OAuth2 handlers.                                              *)
(***************************************************************************)
\* request.platform as callers send it
RequestPlatforms == {EmptyStr, gmail, Gmail, twitter, telegram, slack}

LongLivedTokens == {EmptyStr, <<"long-lived-token">>}

AccountIdentifiers == {EmptyStr, <<"a">>}

AuthorizationCodes == {EmptyStr, <<"authorization-code">>}

\* check_platform_supported(request.platform.lower(), "oauth2") and the
\* handler's except NotImplementedError
\* CheckSupported with the NotImplementedError swallowed
CheckSupportedNoReturn(c, h, next) ==
    /\ At(c, h, "check_platform_supported")
    /\ LET r == check_platform_supported(SUPPORTED_PLATFORMS, Lower(request[c].platform), oauth2)
           args == <<Lower(request[c].platform), oauth2>>
       IN Continue(c, next, <<Entry("check_platform_supported", args,
                                    IF r.raised THEN "raise" ELSE "ok",
                                    IF r.raised THEN <<r.error>> ELSE <<>>)>>, locals[c])
    /\ UNCHANGED <<SUPPORTED_PLATFORMS, applied>>

CheckSupported(c, h, next) ==
    /\ At(c, h, "check_platform_supported")
    /\ LET r == check_platform_supported(SUPPORTED_PLATFORMS, Lower(request[c].platform), oauth2)
           args == <<Lower(request[c].platform), oauth2>>
       IN IF r.raised
          THEN ReturnError(c, <<Entry("check_platform_supported", args, "raise", <<r.error>>)>>,
                           error_response(r.error, "UNIMPLEMENTED", NoUserMsg))
          ELSE Continue(c, next, <<Entry("check_platform_supported", args, "ok", <<>>)>>, locals[c])
    /\ UNCHANGED <<SUPPORTED_PLATFORMS, applied>>

\* OAuth2Client(request.platform)
MakeClient(c, h, next) ==
    /\ At(c, h, "OAuth2Client")
    /\ \E o \in CallOutcomes({<<>>}) :
        LET e == Entry("OAuth2Client", <<request[c].platform>>, o.kind, <<o.value>>)
        IN IF o.kind = "raise"
           THEN ReturnError(c, <<e>>, InternalError(o.value))
           ELSE Continue(c, next, <<e>>, locals[c])
    /\ UNCHANGED <<SUPPORTED_PLATFORMS, applied>>

(*** GetOAuth2AuthorizationUrl; the optional state and code_verifier of   ***)
(*** the request are handed to the client untouched and are left out      ***)
BeginGetOAuth2AuthorizationUrl(c) ==
    \E p \in RequestPlatforms :
        Begin(c, "GetOAuth2AuthorizationUrl", [EmptyRequest EXCEPT !.platform = p])

GetUrlValidate(c) ==
    ValidateFields(c, "GetOAuth2AuthorizationUrl", <<"platform">>, "check_platform_supported")

GetUrlCheckSupported(c) == CheckSupported(c, "GetOAuth2AuthorizationUrl", "OAuth2Client")

GetUrlMakeClient(c) == MakeClient(c, "GetOAuth2AuthorizationUrl", "get_authorization_url")

AuthorizationUrls == {<<"https://provider/authorize">>}

\* oauth2_client.get_authorization_url(**extra_params) and the response
GetUrlGetAuthorizationUrl(c) ==
    /\ At(c, "GetOAuth2AuthorizationUrl", "get_authorization_url")
    /\ \E o \in CallOutcomes(AuthorizationUrls) :
        LET e == Entry("get_authorization_url", <<>>, o.kind, <<o.value>>)
        IN IF o.kind = "raise"
           THEN ReturnError(c, <<e>>, InternalError(o.value))
           ELSE Return(c, <<e>>, context[c],
                       [EmptyResponse EXCEPT
                           !.authorization_url = o.value,
                           !.state = <<"state">>,
                           !.code_verifier = <<"code-verifier">>,
                           !.message = <<"Successfully generated authorization url">>])
    /\ UNCHANGED <<SUPPORTED_PLATFORMS, applied>>

GetOAuth2AuthorizationUrl(c) ==
    \/ BeginGetOAuth2AuthorizationUrl(c)
    \/ GetUrlValidate(c)
    \/ GetUrlCheckSupported(c)
    \/ GetUrlMakeClient(c)
    \/ GetUrlGetAuthorizationUrl(c)

(*** ExchangeOAuth2CodeAndStore ***)
BeginExchangeOAuth2CodeAndStore(c) ==
    \E p \in RequestPlatforms, t \in LongLivedTokens, a \in AuthorizationCodes :
        Begin(c, "ExchangeOAuth2CodeAndStore",
              [EmptyRequest EXCEPT !.platform = p, !.long_lived_token = t,
                                   !.authorization_code = a])

ExchangeValidate(c) ==
    ValidateFields(c, "ExchangeOAuth2CodeAndStore",
                   <<"long_lived_token", "platform", "authorization_code">>,
                   "check_platform_supported")

ExchangeCheckSupported(c) == CheckSupported(c, "ExchangeOAuth2CodeAndStore", "list_tokens")

\* ExchangeListTokens without the return on token_list_error
ExchangeListTokensNoReturn(c) ==
    /\ At(c, "ExchangeOAuth2CodeAndStore", "list_tokens")
    /\ \E o \in VaultOutcomes({<<>>}) :
        Continue(c, "OAuth2Client",
                 <<Entry("list_entity_stored_tokens", <<request[c].long_lived_token>>,
                         o.kind, OutcomeData(o))>>,
                 locals[c])
    /\ UNCHANGED <<SUPPORTED_PLATFORMS, applied>>

\* list_tokens(): only the transport error of the listing is looked at
ExchangeListTokens(c) ==
    /\ At(c, "ExchangeOAuth2CodeAndStore", "list_tokens")
    /\ \E o \in VaultOutcomes({<<>>}) :
        LET e == Entry("list_entity_stored_tokens", <<request[c].long_lived_token>>,
                       o.kind, OutcomeData(o))
        IN IF o.kind = "error"
           THEN ReturnError(c, <<e>>, error_response(o.details, o.code, NoUserMsg))
           ELSE Continue(c, "OAuth2Client", <<e>>, locals[c])
    /\ UNCHANGED <<SUPPORTED_PLATFORMS, applied>>

ExchangeMakeClient(c) == MakeClient(c, "ExchangeOAuth2CodeAndStore", "fetch_token")

OAuthErrors == {<<"invalid_grant: bad authorization code">>}

\* a call of the provider client that can also raise OAuthError
OAuthOutcomes(values) ==
    CallOutcomes(values) \cup [kind : {"oauth_error"}, value : OAuthErrors]

\* Raised without the except OAuthError clause
RaisedWithoutOAuthClause(o) == InternalError(o.value)

\* the handler's except clauses for what the provider client raises
Raised(o) ==
    IF o.kind = "oauth_error"
    THEN error_response(o.value, "INVALID_ARGUMENT", NoUserMsg)
    ELSE InternalError(o.value)

FetchedTokens == {<<"token-1">>}

\* oauth2_client.fetch_token(code=request.authorization_code, ...)
ExchangeFetchToken(c) ==
    /\ At(c, "ExchangeOAuth2CodeAndStore", "fetch_token")
    /\ \E o \in OAuthOutcomes(FetchedTokens) :
        LET e == Entry("fetch_token", <<request[c].authorization_code>>, o.kind, <<o.value>>)
        IN IF o.kind # "ok"
           THEN ReturnError(c, <<e>>, Raised(o))
           ELSE Continue(c, "fetch_userinfo", <<e>>, [locals[c] EXCEPT !.token = o.value[1]])
    /\ UNCHANGED <<SUPPORTED_PLATFORMS, applied>>

\* the profiles the provider can return: with an email, with a username
\* only, with neither
Profiles ==
    {[email |-> <<"a">>, username |-> <<"u">>],
     [email |-> <<>>, username |-> <<"u">>],
     [email |-> <<>>, username |-> <<>>]}

\* oauth2_client.fetch_userinfo()
ExchangeFetchUserinfo(c) ==
    /\ At(c, "ExchangeOAuth2CodeAndStore", "fetch_userinfo")
    /\ \E o \in OAuthOutcomes({<<>>}), profile \in Profiles :
        LET e == Entry("fetch_userinfo", <<>>, o.kind,
                       IF o.kind = "ok" THEN <<profile.email, profile.username>> ELSE <<o.value>>)
        IN IF o.kind # "ok"
           THEN ReturnError(c, <<e>>, Raised(o))
           ELSE Continue(c, "store_token", <<e>>, [locals[c] EXCEPT !.profile = profile])
    /\ UNCHANGED <<SUPPORTED_PLATFORMS, applied>>

\* profile.get("email") or profile.get("username")
ProfileIdentifier(profile) ==
    IF profile.email # <<>> THEN profile.email ELSE profile.username

\* store_token(token, profile)
ExchangeStoreToken(c) ==
    /\ At(c, "ExchangeOAuth2CodeAndStore", "store_token")
    /\ \E o \in VaultOutcomes({<<>>}) :
        LET e == Entry("store_entity_token",
                       <<request[c].long_lived_token, request[c].platform,
                         ProfileIdentifier(locals[c].profile), json_dumps(locals[c].token)>>,
                       o.kind, OutcomeData(o))
        IN IF o.kind # "ok"
           THEN ReturnError(c, <<e>>, VaultFailure(context[c], o))
           ELSE Return(c, <<e>>, context[c],
                       [EmptyResponse EXCEPT !.success = TRUE,
                                             !.message = <<"Successfully fetched and stored token">>])
    /\ UNCHANGED <<SUPPORTED_PLATFORMS, applied>>

ExchangeOAuth2CodeAndStore(c) ==
    \/ BeginExchangeOAuth2CodeAndStore(c)
    \/ ExchangeValidate(c)
    \/ ExchangeCheckSupported(c)
    \/ ExchangeListTokens(c)
    \/ ExchangeMakeClient(c)
    \/ ExchangeFetchToken(c)
    \/ ExchangeFetchUserinfo(c)
    \/ ExchangeStoreToken(c)

(*** RevokeAndDeleteOAuth2Token ***)
BeginRevokeAndDeleteOAuth2Token(c) ==
    \E p \in RequestPlatforms, t \in LongLivedTokens, a \in AccountIdentifiers :
        Begin(c, "RevokeAndDeleteOAuth2Token",
              [EmptyRequest EXCEPT !.platform = p, !.long_lived_token = t,
                                   !.account_identifier = a])

RevokeValidate(c) ==
    ValidateFields(c, "RevokeAndDeleteOAuth2Token",
                   <<"long_lived_token", "platform", "account_identifier">>,
                   "check_platform_supported")

RevokeCheckSupported(c) == CheckSupported(c, "RevokeAndDeleteOAuth2Token", "get_access_token")

\* get_access_token()
RevokeGetAccessToken(c) ==
    /\ At(c, "RevokeAndDeleteOAuth2Token", "get_access_token")
    /\ \E o \in VaultOutcomes(StoredTokens) :
        LET e == Entry("get_entity_access_token",
                       <<request[c].platform, request[c].account_identifier,
                         request[c].long_lived_token>>,
                       o.kind, OutcomeData(o))
        IN IF o.kind # "ok"
           THEN ReturnError(c, <<e>>, VaultFailure(context[c], o))
           ELSE Continue(c, "OAuth2Client", <<e>>, [locals[c] EXCEPT !.access_token = o.value])
    /\ UNCHANGED <<SUPPORTED_PLATFORMS, applied>>

\* revoke_token(token): OAuth2Client(request.platform, json.loads(token))
RevokeMakeClient(c) ==
    /\ At(c, "RevokeAndDeleteOAuth2Token", "OAuth2Client")
    /\ IF ~IsJson(locals[c].access_token)
       THEN ReturnError(c, <<Entry("json.loads", <<locals[c].access_token>>, "raise", <<JsonError>>)>>,
                        InternalError(JsonError))
       ELSE \E o \in CallOutcomes({<<>>}) :
            LET e == Entry("OAuth2Client",
                           <<request[c].platform, <<json_loads(locals[c].access_token)>>>>,
                           o.kind, <<o.value>>)
            IN IF o.kind = "raise"
               THEN ReturnError(c, <<e>>, InternalError(o.value))
               ELSE Continue(c, "revoke_token", <<e>>, locals[c])
    /\ UNCHANGED <<SUPPORTED_PLATFORMS, applied>>

\* what the provider client's revoke_token can do: raise, return a result
\* that reports the revocation, or return a result that reports the
\* provider's refusal
RevokeOutcomes ==
    CallOutcomes({<<"provider: token revoked">>})
    \cup [kind : {"refused"}, value : {<<"provider: revocation refused">>}]

\* where RevokeAndDeleteOAuth2Token goes after revoke_token(access_token)
\* has returned revoke_response
AfterRevoke(revoke_response) == "delete_token"

\* revoke_token(token): oauth2_client.revoke_token()
RevokeRevokeToken(c) ==
    /\ At(c, "RevokeAndDeleteOAuth2Token", "revoke_token")
    /\ \E o \in RevokeOutcomes :
        LET e == Entry("revoke_token", <<>>, o.kind, <<o.value>>)
        IN IF o.kind = "raise"
           THEN ReturnError(c, <<e>>, InternalError(o.value))
           ELSE Continue(c, AfterRevoke(o), <<e>>, locals[c])
    /\ UNCHANGED <<SUPPORTED_PLATFORMS, applied>>

\* delete_token()
RevokeDeleteToken(c) ==
    /\ At(c, "RevokeAndDeleteOAuth2Token", "delete_token")
    /\ \E o \in VaultOutcomes({<<>>}) :
        LET e == Entry("delete_entity_token",
                       <<request[c].long_lived_token, request[c].platform,
                         request[c].account_identifier>>,
                       o.kind, OutcomeData(o))
        IN IF o.kind # "ok"
           THEN ReturnError(c, <<e>>, VaultFailure(context[c], o))
           ELSE Return(c, <<e>>, context[c],
                       [EmptyResponse EXCEPT !.success = TRUE,
                                             !.message = <<"Successfully deleted token">>])
    /\ UNCHANGED <<SUPPORTED_PLATFORMS, applied>>

RevokeAndDeleteOAuth2Token(c) ==
    \/ BeginRevokeAndDeleteOAuth2Token(c)
    \/ RevokeValidate(c)
    \/ RevokeCheckSupported(c)
    \/ RevokeGetAccessToken(c)
    \/ RevokeMakeClient(c)
    \/ RevokeRevokeToken(c)
    \/ RevokeDeleteToken(c)

(***************************************************************************)
(* The service: RPCs arrive one after another (Spec).  SpecExtended is the *)
(* same service started with the registry of the source or with the        *)
(* extended registry.                                                      *)
(***************************************************************************)
Handle(c) ==
    \/ GetOAuth2AuthorizationUrl(c)
    \/ ExchangeOAuth2CodeAndStore(c)
    \/ RevokeAndDeleteOAuth2Token(c)
    \/ PublishContent(c)
    \/ Respond(c)

Next == Handle(MainCall)

Spec == Init /\ [][Next]_vars

InitExtended ==
    /\ SUPPORTED_PLATFORMS \in {RegistryAtStart, RegistryExtended}
    /\ pc = [c \in Calls |-> "idle"]
    /\ handler = [c \in Calls |-> "none"]
    /\ request = [c \in Calls |-> EmptyRequest]
    /\ locals = [c \in Calls |-> EmptyLocals]
    /\ context = [c \in Calls |-> CleanContext]
    /\ returned = [c \in Calls |-> EmptyResponse]
    /\ log = [c \in Calls |-> <<>>]
    /\ applied = <<>>

SpecExtended == InitExtended /\ [][Next]_vars

(***************************************************************************)
(* The two lookups of the registry as functions of their arguments:        *)
(* SpecRegistry applies them to every platform name, protocol and          *)
(* shortcode, up to MaxApplications times in a row.                        *)
(***************************************************************************)
MaxApplications == 2

Protocols == {oauth2, pnba, EmptyStr}

ApplyCheckPlatformSupported(c) ==
    /\ pc[c] = "idle"
    /\ Len(log[c]) < MaxApplications
    /\ \E platform_name \in RequestPlatforms, protocol \in Protocols :
        LET r == check_platform_supported(SUPPORTED_PLATFORMS, platform_name, protocol)
        IN log' = [log EXCEPT ![c] =
                    Append(@, Entry("check_platform_supported", <<platform_name, protocol>>,
                                    IF r.raised THEN "raise" ELSE "ok", <<r.error>>))]
    /\ UNCHANGED <<SUPPORTED_PLATFORMS, pc, handler, request, locals, context, returned, applied>>

ApplyGetPlatformDetails(c) ==
    /\ pc[c] = "idle"
    /\ Len(log[c]) < MaxApplications
    /\ \E shortcode \in Shortcodes :
        LET r == get_platform_details_by_shortcode(SUPPORTED_PLATFORMS, shortcode)
        IN /\ SUPPORTED_PLATFORMS' = r.platforms
           /\ log' = [log EXCEPT ![c] =
                        Append(@, Entry("get_platform_details_by_shortcode", <<<<shortcode>>>>,
                                        IF r.found THEN "ok" ELSE "error",
                                        IF r.found THEN <<r.details["name"]>>
                                                   ELSE <<r.error_message>>))]
    /\ UNCHANGED <<pc, handler, request, locals, context, returned, applied>>

NextRegistry ==
    \/ ApplyCheckPlatformSupported(MainCall)
    \/ ApplyGetPlatformDetails(MainCall)

SpecRegistry == InitExtended /\ [][NextRegistry]_vars

(***************************************************************************)
(* Properties.                                                             *)
(***************************************************************************)
Publishing(c) == handler[c] = "PublishContent"

Finished(c, h) == handler[c] = h /\ pc[c] = "done"

\* a collaborator call that did not succeed
Failed(e) == e.result \in {"error", "logical", "raise", "oauth_error"}

\* the positions of the log at which op was called
Positions(l, op) == {i \in 1..Len(l) : l[i].op = op}

\* the stage of PublishContent a collaborator belongs to
StageOf(op) ==
    CASE op = "validate_request_fields" -> 1
      [] op = "decode_relay_sms_payload" -> 2
      [] op = "get_platform_details_by_shortcode" -> 3
      [] op = "decrypt_payload" -> 4
      [] op = "get_entity_access_token" -> 5
      [] OTHER -> 6

\* what a stage hands to the pipeline when its collaborator call e fails:
\* the context and the response
StageFailure(e) ==
    CASE e.op = "validate_request_fields" ->
            [context |-> [code |-> "INVALID_ARGUMENT",
                          details |-> <<"Missing required fields: ">> \o e.out[1]],
             response |-> EmptyResponse]
      [] e.op = "decode_relay_sms_payload" ->
            [context |-> [code |-> "INVALID_ARGUMENT", details |-> <<"Invalid content format.">>],
             response |-> EmptyResponse]
      [] e.op = "get_platform_details_by_shortcode" ->
            [context |-> [code |-> "INVALID_ARGUMENT", details |-> e.out[1]],
             response |-> EmptyResponse]
      [] e.result = "error" ->
            [context |-> [code |-> e.out[1][1], details |-> e.out[2]],
             response |-> EmptyResponse]
      [] e.result = "logical" ->
            [context |-> CleanContext,
             response |-> [EmptyResponse EXCEPT !.message = e.out[1]]]
      [] OTHER ->
            [context |-> [code |-> "INTERNAL",
                          details |-> <<"Oops! Something went wrong. Please try again later.">>],
             response |-> EmptyResponse]

\* a stage fails when its collaborator call fails; the update callback
\* answers the provider client, not the pipeline
StageFailed(e) == Failed(e) /\ e.op # "update_entity_token"

\* C1: PublishContent is short-circuiting: its collaborators are called in
\* stage order, once a stage has failed no collaborator of a later stage is
\* called and the call has returned what the failed stage produced.
C1_ShortCircuit ==
    \A c \in Calls : Publishing(c) =>
        LET l == log[c]
        IN /\ \A i, j \in 1..Len(l) : i < j => StageOf(l[i].op) <= StageOf(l[j].op)
           /\ \A k \in 1..5 : Cardinality({i \in 1..Len(l) : StageOf(l[i].op) = k}) <= 1
           /\ \A i \in 1..Len(l) : StageFailed(l[i]) =>
                /\ \A j \in 1..Len(l) : j > i => (StageOf(l[j].op) = 6 /\ l[j].op = "update_entity_token")
                /\ pc[c] = "done"
                /\ returned[c] = StageFailure(l[i]).response
                /\ context[c] = StageFailure(l[i]).context

\* a call of PublishContent has ended on the failure of one of its first
\* five stages, having called only the collaborators up to that stage
C1_Witness ==
    \E c \in Calls :
        /\ Finished(c, "PublishContent")
        /\ Len(log[c]) = 4
        /\ log[c][4].op = "decrypt_payload"
        /\ log[c][4].result = "error"

\* C2: when the refresh callback's update_entity_token fails during the
\* send of PublishContent, the publish is aborted: the call does not return
\* success = true, and what it returns carries the vault's error.
C2_RefreshFailureAborts ==
    \A c \in Calls : Finished(c, "PublishContent") =>
        \A i \in Positions(log[c], "update_entity_token") :
            Failed(log[c][i]) =>
                /\ ~returned[c].success
                /\ IF log[c][i].result = "error"
                   THEN context[c] = [code |-> log[c][i].out[1][1], details |-> log[c][i].out[2]]
                   ELSE returned[c].message = log[c][i].out[1]

\* the (protocol, service_type) pair of a resolved platform
DispatchPair(platform_info) == <<platform_info["protocol"], platform_info["service_type"]>>

\* PublishContent has fetched the credential and come to the dispatch
Dispatched(c) ==
    \E i \in Positions(log[c], "get_entity_access_token") : log[c][i].result = "ok"

C4_RevokeBeforeDelete ==
    \A c \in Calls : handler[c] = "RevokeAndDeleteOAuth2Token" =>
        LET l == log[c]
        IN /\ \A d \in Positions(l, "delete_entity_token") :
                \E r \in Positions(l, "revoke_token") : r < d /\ l[r].result = "ok"
           /\ \A r \in Positions(l, "revoke_token") :
                \E g \in Positions(l, "get_entity_access_token") : g < r /\ l[g].result = "ok"

\* tok is the first colon-delimited token of s
IsFirstToken(tok, s) ==
    /\ \A i \in 1..Len(tok) : tok[i] # ":"
    /\ Len(tok) <= Len(s)
    /\ SubSeq(s, 1, Len(tok)) = tok
    /\ (Len(s) > Len(tok) => s[Len(tok) + 1] = ":")

\* C5: every update_entity_token of a PublishContent call is keyed by the
\* device id, account identifier and platform of the call's
\* get_entity_access_token, the account identifier being the first
\* colon-delimited token of the plaintext.
C5_RefreshKeyIsFetchKey ==
    \A c \in Calls : Publishing(c) =>
        LET l == log[c]
        IN \A u \in Positions(l, "update_entity_token") :
            \E g \in Positions(l, "get_entity_access_token") :
                /\ g < u
                /\ l[u].args[1] = l[g].args[1]
                /\ l[u].args[3] = l[g].args[3]
                /\ l[u].args[4] = l[g].args[2]
                /\ IsFirstToken(l[u].args[3], locals[c].decrypted_content)

\* a refresh has updated the token of an account whose identifier is a
\* proper, non-empty part of the plaintext
C5_Witness ==
    \E c \in Calls :
        /\ Publishing(c)
        /\ \E u \in Positions(log[c], "update_entity_token") :
            /\ log[c][u].args[3] # <<>>
            /\ log[c][u].args[3] # locals[c].decrypted_content
            /\ log[c][u].args[1] = <<"0", "1", "1", "0">>

VaultReads == {"decrypt_payload", "get_entity_access_token"}

\* C6: a logical failure (success = false, no transport error) of
\* decrypt_payload or get_entity_access_token in PublishContent ends the
\* call with success = false and the vault's message, with no status set on
\* the context, and no later collaborator is called.
C6_LogicalFailure ==
    \A c \in Calls : Publishing(c) =>
        \A i \in 1..Len(log[c]) :
            (log[c][i].op \in VaultReads /\ log[c][i].result = "logical") =>
                /\ i = Len(log[c])
                /\ pc[c] = "done"
                /\ ~returned[c].success
                /\ returned[c].message = log[c][i].out[1]
                /\ context[c].code = "OK"

\* get_entity_access_token of a PublishContent call has reported a logical
\* failure
C6_Witness ==
    \E c \in Calls :
        /\ Finished(c, "PublishContent")
        /\ log[c][Len(log[c])].op = "get_entity_access_token"
        /\ log[c][Len(log[c])].result = "logical"
        /\ returned[c].message = <<"vault: token not found">>

\* C7: a transport error of decrypt_payload or get_entity_access_token in
\* PublishContent ends the call with exactly the code and the details of
\* the upstream error, whatever the code.
C7_TransportError ==
    \A c \in Calls : Publishing(c) =>
        \A i \in 1..Len(log[c]) :
            (log[c][i].op \in VaultReads /\ log[c][i].result = "error") =>
                /\ pc[c] = "done"
                /\ context[c].code = log[c][i].out[1][1]
                /\ context[c].details = log[c][i].out[2]

\* decrypt_payload of a PublishContent call has failed with DATA_LOSS
C7_Witness ==
    \E c \in Calls :
        /\ Finished(c, "PublishContent")
        /\ log[c][Len(log[c])].op = "decrypt_payload"
        /\ log[c][Len(log[c])].result = "error"
        /\ context[c] = [code |-> "DATA_LOSS", details |-> <<"vault: deadline exceeded">>]

\* the message names shortcode sc as an available one
Lists(msg, sc) ==
    \E k \in 1..(Len(msg) - 2) : msg[k] = "'" /\ msg[k + 1] = sc /\ msg[k + 2] = "' for "

VaultAndProviderOps ==
    {"decrypt_payload", "get_entity_access_token", "update_entity_token",
     "OAuth2Client", "send_message"}

\* C8: a shortcode that matches no registry entry ends PublishContent with
\* INVALID_ARGUMENT, a message listing every shortcode of the registry and
\* no vault or provider call; a shortcode of the registry resolves to the
\* descriptor of the platform that has it.
C8_Resolve ==
    \A c \in Calls : Publishing(c) =>
        \A i \in Positions(log[c], "get_platform_details_by_shortcode") :
            LET letter == log[c][i].args[1][1]
                known == {n \in DOMAIN SUPPORTED_PLATFORMS :
                            SUPPORTED_PLATFORMS[n]["shortcode"] = letter}
            IN IF known = {}
               THEN /\ log[c][i].result = "error"
                    /\ pc[c] = "done"
                    /\ ~returned[c].success
                    /\ context[c].code = "INVALID_ARGUMENT"
                    /\ \A n \in DOMAIN SUPPORTED_PLATFORMS :
                        Lists(context[c].details, SUPPORTED_PLATFORMS[n]["shortcode"])
                    /\ \A j \in 1..Len(log[c]) : log[c][j].op \notin VaultAndProviderOps
               ELSE /\ log[c][i].result = "ok"
                    /\ locals[c].platform_info["name"] \in known
                    /\ locals[c].platform_info = SUPPORTED_PLATFORMS[locals[c].platform_info["name"]]

\* PublishContent has ended on a shortcode that is in no registry entry
C8_Witness ==
    \E c \in Calls :
        /\ Finished(c, "PublishContent")
        /\ locals[c].platform_letter = "x"
        /\ log[c][Len(log[c])].op = "get_platform_details_by_shortcode"
        /\ Cardinality(DOMAIN SUPPORTED_PLATFORMS) = 3

\* every collaborator call of the log succeeded
AllSucceeded(l) == \A i \in 1..Len(l) : l[i].result = "ok"

\* C9: when every stage of PublishContent succeeds for shortcode "g", the
\* call returns success = true, the message "Successfully published gmail
\* message" and the provider's send result, having called decrypt_payload,
\* get_entity_access_token and send_message once each, in that order.
C9_HappyPath ==
    \A c \in Calls :
        (/\ Finished(c, "PublishContent")
         /\ locals[c].platform_letter = "g"
         /\ \A i \in 1..Len(log[c]) :
                log[c][i].op # "update_entity_token" => log[c][i].result = "ok")
        => LET l == log[c]
               d == Positions(l, "decrypt_payload")
               g == Positions(l, "get_entity_access_token")
               m == Positions(l, "send_message")
           IN /\ returned[c].success
              /\ returned[c].message =
                    <<"Successfully published ", "g", "m", "a", "i", "l", " message">>
              /\ Cardinality(d) = 1 /\ Cardinality(g) = 1 /\ Cardinality(m) = 1
              /\ \A i \in d, j \in g, k \in m :
                    /\ i < j /\ j < k
                    /\ returned[c].publisher_response = l[k].out[1]
                    /\ l[k].out[1] \in SendResults
              /\ (AllSucceeded(l) => context[c].code = "OK")

\* a publish for shortcode "g" has gone through every stage
C9_Witness ==
    \E c \in Calls :
        /\ Finished(c, "PublishContent")
        /\ locals[c].platform_letter = "g"
        /\ AllSucceeded(log[c])
        /\ Positions(log[c], "send_message") # {}
        /\ returned[c].success

\* the call of check_platform_supported that a step has just made, if any
CheckedIn(c) ==
    /\ Len(log'[c]) = Len(log[c]) + 1
    /\ log'[c][Len(log'[c])].op = "check_platform_supported"

\* C10: check_platform_supported(name, protocol) raises if and only if name
\* is not in the registry or the protocol registered for name is not
\* protocol, and it leaves the registry as it was; when it does not raise,
\* the context and the response are left alone as well.
C10_CheckPlatformSupported ==
    [][\A c \in Calls : CheckedIn(c) =>
        LET e == log'[c][Len(log'[c])]
            platform_name == e.args[1]
            protocol == e.args[2]
        IN /\ (e.result = "raise") <=>
                (\/ platform_name \notin DOMAIN SUPPORTED_PLATFORMS
                 \/ SUPPORTED_PLATFORMS[platform_name]["protocol"] # protocol)
           /\ e.result \in {"raise", "ok"}
           /\ SUPPORTED_PLATFORMS' = SUPPORTED_PLATFORMS
           /\ (e.result = "ok" => (context' = context /\ returned' = returned))]_vars

\* check_platform_supported has accepted gmail with oauth2 and has refused
\* telegram, which is registered with another protocol
C10_Witness ==
    \E c \in Calls :
        /\ \E i \in Positions(log[c], "check_platform_supported") :
            log[c][i].args = <<telegram, oauth2>> /\ log[c][i].result = "raise"
        /\ \E i \in Positions(log[c], "check_platform_supported") :
            log[c][i].args = <<gmail, oauth2>> /\ log[c][i].result = "ok"

\* the place of a collaborator in the sequence of ExchangeOAuth2CodeAndStore
ExchangeRank(op) ==
    CASE op = "validate_request_fields" -> 0
      [] op = "check_platform_supported" -> 1
      [] op = "list_entity_stored_tokens" -> 2
      [] op = "OAuth2Client" -> 3
      [] op = "fetch_token" -> 4
      [] op = "fetch_userinfo" -> 5
      [] op = "store_entity_token" -> 6
      [] OTHER -> 7

\* C11: ExchangeOAuth2CodeAndStore verifies platform support, lists the
\* stored tokens, exchanges the code, fetches the profile and stores the
\* token, in that order and with no step skipped; after a transport error
\* of list_entity_stored_tokens, fetch_token is not called and nothing is
\* stored.
C11_ExchangeOrder ==
    \A c \in Calls : handler[c] = "ExchangeOAuth2CodeAndStore" =>
        LET l == log[c]
        IN /\ \A i \in 1..Len(l) : ExchangeRank(l[i].op) = i - 1
           /\ \A i \in Positions(l, "list_entity_stored_tokens") :
                l[i].result = "error" =>
                    /\ i = Len(l)
                    /\ pc[c] = "done"
                    /\ Positions(l, "fetch_token") = {}
                    /\ Positions(l, "store_entity_token") = {}
                    /\ context[c] = [code |-> l[i].out[1][1], details |-> l[i].out[2]]

\* an exchange has ended on a transport error of the listing
C11_Witness ==
    \E c \in Calls :
        /\ Finished(c, "ExchangeOAuth2CodeAndStore")
        /\ Len(log[c]) = 3
        /\ log[c][3].op = "list_entity_stored_tokens"
        /\ log[c][3].result = "error"
        /\ context[c].code = "UNAVAILABLE"

ProviderExchangeOps == {"fetch_token", "fetch_userinfo"}

\* C12: when fetch_token or fetch_userinfo raises OAuthError,
\* ExchangeOAuth2CodeAndStore ends with INVALID_ARGUMENT and the error's
\* text, and store_entity_token is not called; when the exchange succeeds
\* the call ends as store_entity_token reports: with the code and details
\* of its transport error, with its message and success = false, or with
\* success = true.
C12_ExchangeOutcome ==
    \A c \in Calls : handler[c] = "ExchangeOAuth2CodeAndStore" =>
        LET l == log[c]
        IN /\ \A i \in 1..Len(l) :
                (l[i].op \in ProviderExchangeOps /\ l[i].result = "oauth_error") =>
                    /\ i = Len(l)
                    /\ pc[c] = "done"
                    /\ context[c] = [code |-> "INVALID_ARGUMENT", details |-> l[i].out[1]]
                    /\ ~returned[c].success
                    /\ Positions(l, "store_entity_token") = {}
           /\ \A i \in Positions(l, "store_entity_token") :
                /\ i = Len(l)
                /\ pc[c] = "done"
                /\ \E t \in Positions(l, "fetch_token"), u \in Positions(l, "fetch_userinfo") :
                    t < u /\ u < i /\ l[t].result = "ok" /\ l[u].result = "ok"
                /\ CASE l[i].result = "error" ->
                            /\ context[c] = [code |-> l[i].out[1][1], details |-> l[i].out[2]]
                            /\ ~returned[c].success
                     [] l[i].result = "logical" ->
                            /\ context[c] = CleanContext
                            /\ ~returned[c].success
                            /\ returned[c].message = l[i].out[1]
                     [] OTHER ->
                            /\ l[i].result = "ok"
                            /\ context[c] = CleanContext
                            /\ returned[c].success
                            /\ returned[c].message = <<"Successfully fetched and stored token">>

\* an exchange has ended on the provider's rejection of the code
C12_Witness ==
    \E c \in Calls :
        /\ Finished(c, "ExchangeOAuth2CodeAndStore")
        /\ log[c][Len(log[c])].op = "fetch_token"
        /\ log[c][Len(log[c])].result = "oauth_error"
        /\ context[c].code = "INVALID_ARGUMENT"

OAuth2Handlers ==
    {"GetOAuth2AuthorizationUrl", "ExchangeOAuth2CodeAndStore", "RevokeAndDeleteOAuth2Token"}

Preliminaries == {"validate_request_fields", "check_platform_supported"}

\* C13: in GetOAuth2AuthorizationUrl, ExchangeOAuth2CodeAndStore and
\* RevokeAndDeleteOAuth2Token the field validation and then the platform
\* check come before every vault or provider call: a call with a missing
\* field ends with INVALID_ARGUMENT after the validation alone, a call for
\* an unsupported platform ends with UNIMPLEMENTED after the check, and
\* neither makes a vault or provider call.
C13_ChecksFirst ==
    \A c \in Calls : handler[c] \in OAuth2Handlers =>
        LET l == log[c]
        IN /\ \A i \in 1..Len(l) :
                l[i].op \notin Preliminaries =>
                    /\ i > 2
                    /\ l[1].op = "validate_request_fields" /\ l[1].result = "ok"
                    /\ l[2].op = "check_platform_supported" /\ l[2].result = "ok"
           /\ \A i \in Positions(l, "validate_request_fields") :
                /\ i = 1
                /\ l[i].result # "ok" =>
                    /\ Len(l) = 1 /\ pc[c] = "done"
                    /\ context[c].code = "INVALID_ARGUMENT"
           /\ \A i \in Positions(l, "check_platform_supported") :
                /\ i = 2
                /\ l[i].result # "ok" =>
                    /\ Len(l) = 2 /\ pc[c] = "done"
                    /\ context[c] = [code |-> "UNIMPLEMENTED", details |-> l[i].out[1]]
                    /\ ~returned[c].success

\* a revocation for a platform that the registry lacks has ended
C13_Witness ==
    \E c \in Calls :
        /\ Finished(c, "RevokeAndDeleteOAuth2Token")
        /\ request[c].platform = twitter
        /\ Len(log[c]) = 2
        /\ log[c][2].result = "raise"
        /\ context[c].code = "UNIMPLEMENTED"

VaultOps ==
    {"list_entity_stored_tokens", "store_entity_token", "get_entity_access_token",
     "update_entity_token", "delete_entity_token", "decrypt_payload"}

\* C14: in every handler, a vault call that answers success = false without
\* a transport error is the last step of the call, which ends with status
\* OK, success = false and the vault's message.
C14_LogicalFailureEnds ==
    \A c \in Calls :
        LET l == log[c]
        IN \A i \in 1..Len(l) :
            (l[i].op \in VaultOps /\ l[i].result = "logical") =>
                /\ i = Len(l)
                /\ pc[c] = "done"
                /\ context[c] = CleanContext
                /\ ~returned[c].success
                /\ returned[c].message = l[i].out[1]

\* the calls handle_oauth2_email makes, the refresh callback's included
DispatchOps ==
    {"parse_email_content", "create_email_message", "json.loads", "OAuth2Client",
     "send_message", "update_entity_token"}

\* C15: in PublishContent every step of the dispatch comes after a
\* decrypt_payload that returned a plaintext and a get_entity_access_token
\* that returned a token, and the dispatch works on that plaintext and that
\* token.
C15_DispatchHasInputs ==
    \A c \in Calls : handler[c] = "PublishContent" =>
        LET l == log[c]
        IN \A i \in 1..Len(l) :
            l[i].op \in DispatchOps =>
                \E d \in Positions(l, "decrypt_payload"),
                   g \in Positions(l, "get_entity_access_token") :
                    /\ d < g /\ g < i
                    /\ l[d].result = "ok" /\ l[g].result = "ok"
                    /\ l[d].out[1] \in Plaintexts
                    /\ l[g].out[1] \in StoredTokens
                    /\ locals[c].decrypted_content = l[d].out[1]
                    /\ locals[c].access_token = l[g].out[1]

\* a publish has sent its message
C15_Witness ==
    \E c \in Calls :
        /\ Finished(c, "PublishContent")
        /\ \E i \in Positions(log[c], "send_message") : log[c][i].result = "ok"
        /\ locals[c].access_token \in StoredTokens
        /\ returned[c].success

\* C16: no step of any handler changes the registry: its keys, and the
\* fields and values of every descriptor, stay as they were at process
\* start.
C16_RegistryReadOnly == [][SUPPORTED_PLATFORMS' = SUPPORTED_PLATFORMS]_vars

(***************************************************************************)
(* Two PublishContent calls in flight at once.  The servicer runs each     *)
(* call on its own thread; SpecConcurrent starts with both calls about to  *)
(* call send_message, for one device and platform, and interleaves their   *)
(* steps.  applied holds the update_entity_token calls of the calls in     *)
(* flight in the order in which the vault has applied them.                *)
(***************************************************************************)
\* request, locals and log of a PublishContent that has run lines 532-558
\* and handle_oauth2_email up to the call of send_message
ReadyToSend(device_id, plaintext, stored) ==
    LET content == <<"relay-payload">>
        r == get_platform_details_by_shortcode(RegistryAtStart, "g")
        from_email == parse_email_content(plaintext).from_email
    IN [request |-> [EmptyRequest EXCEPT !.content = content],
        locals |-> [EmptyLocals EXCEPT
                        !.platform_letter = "g",
                        !.device_id = device_id,
                        !.platform_info = r.details,
                        !.decrypted_content = plaintext,
                        !.access_token = stored,
                        !.from_email = from_email,
                        !.update_token = create_update_token_context(Hex(device_id), from_email,
                                                                     r.details["name"])],
        log |-> <<Entry("validate_request_fields", <<<<"content">>>>, "ok", <<>>),
                  Entry("decode_relay_sms_payload", <<content>>, "ok", <<<<"g">>, Hex(device_id)>>),
                  Entry("get_platform_details_by_shortcode", <<<<"g">>>>, "ok",
                        <<r.details["name"]>>),
                  Entry("decrypt_payload", <<Hex(device_id)>>, "ok", <<plaintext>>),
                  Entry("get_entity_access_token",
                        <<Hex(device_id), r.details["name"], AccountIdentifier(plaintext)>>,
                        "ok", <<stored>>),
                  Entry("parse_email_content", <<plaintext>>, "ok", <<<<>>>>),
                  Entry("create_email_message", <<from_email>>, "ok", <<>>),
                  Entry("OAuth2Client", <<r.details["name"], <<json_loads(stored)>>>>,
                        "ok", <<<<>>>>)>>]

\* the plaintext of the first call, and those of the second: of the same
\* account, or of another
FirstPlaintext == <<"a", ":", ":", ":", ":", ":">>

ConcurrentPlaintexts == {FirstPlaintext, <<":", ":", ":", ":", ":">>}

InitConcurrent ==
    \E p1 \in {FirstPlaintext}, p2 \in ConcurrentPlaintexts :
        LET ready == [c \in Calls |->
                        ReadyToSend(<<171>>, IF c = MainCall THEN p1 ELSE p2,
                                    json_dumps("token-1"))]
        IN /\ SUPPORTED_PLATFORMS = get_platform_details_by_shortcode(RegistryAtStart, "g").platforms
           /\ pc = [c \in Calls |-> "send_message"]
           /\ handler = [c \in Calls |-> "PublishContent"]
           /\ request = [c \in Calls |-> ready[c].request]
           /\ locals = [c \in Calls |-> ready[c].locals]
           /\ context = [c \in Calls |-> CleanContext]
           /\ returned = [c \in Calls |-> EmptyResponse]
           /\ log = [c \in Calls |-> ready[c].log]
           /\ applied = <<>>

SendStep(c) ==
    \/ PublishSend(c)
    \/ PublishRefresh(c)
    \/ PublishSendEnd(c)
    \/ Respond(c)

NextConcurrent == \E c \in Calls : SendStep(c)

SpecConcurrent == InitConcurrent /\ [][NextConcurrent]_vars

\* the key of an update_entity_token call: device, account, platform
UpdateKey(e) == <<e.args[1], e.args[3], e.args[4]>>

UpdateToken(e) == e.args[2]

\* the vault's store after it has applied the updates in order: an update
\* that succeeds replaces the token under its key
RECURSIVE VaultAfter(_)
VaultAfter(updates) ==
    IF updates = <<>>
    THEN [k \in {} |-> <<>>]
    ELSE LET u == updates[Len(updates)].entry
             before == VaultAfter(SubSeq(updates, 1, Len(updates) - 1))
         IN IF u.result = "ok"
            THEN (UpdateKey(u) :> UpdateToken(u)) @@ before
            ELSE before

\* the update_entity_token entries of a log, in order
UpdatesOf(l) == SelectSeq(l, LAMBDA e : e.op = "update_entity_token")

\* the entries of the updates that the vault has applied for call c
AppliedFor(c) ==
    LET own == SelectSeq(applied, LAMBDA a : a.call = c)
    IN [i \in 1..Len(own) |-> own[i].entry]

\* the positions of the successful updates of key k in applied
AppliedTo(k) ==
    {i \in 1..Len(applied) : applied[i].entry.result = "ok" /\ UpdateKey(applied[i].entry) = k}

\* C17: two PublishContent calls that refresh the credential concurrently
\* take no lock: a call whose send is under way can refresh whatever the
\* other call has done, every refresh issues the call's own
\* update_entity_token with the refreshed token, and the vault holds under
\* each key the token of the update that it applied last.
C17_LastWriterWins ==
    /\ \A c \in Calls : handler[c] = "PublishContent" =>
        /\ (pc[c] = "sending" /\ locals[c].refreshes < MaxRefresh) => ENABLED PublishRefresh(c)
        /\ AppliedFor(c) = UpdatesOf(log[c])
        /\ Len(UpdatesOf(log[c])) = locals[c].refreshes
        /\ \A i \in 1..Len(UpdatesOf(log[c])) :
            LET e == UpdatesOf(log[c])[i]
            IN /\ UpdateKey(e) = <<locals[c].update_token.device_id,
                                   locals[c].update_token.account_identifier,
                                   locals[c].update_token.platform_name>>
               /\ \E token \in RefreshedTokens : UpdateToken(e) = json_dumps(token)
    /\ \A i \in 1..Len(applied) :
        LET k == UpdateKey(applied[i].entry)
        IN AppliedTo(k) # {} =>
            /\ k \in DOMAIN VaultAfter(applied)
            /\ \E last \in AppliedTo(k) :
                /\ \A j \in AppliedTo(k) : j <= last
                /\ VaultAfter(applied)[k] = UpdateToken(applied[last].entry)

\* both calls have refreshed the credential of one account with different
\* tokens and have published; the vault holds the token of the later update
C17_Witness ==
    /\ \A c \in Calls : Finished(c, "PublishContent") /\ returned[c].success
    /\ Len(applied) = 2
    /\ applied[1].call = "call-2" /\ applied[2].call = "call-1"
    /\ applied[1].entry.result = "ok" /\ applied[2].entry.result = "ok"
    /\ UpdateKey(applied[1].entry) = UpdateKey(applied[2].entry)
    /\ UpdateToken(applied[1].entry) # UpdateToken(applied[2].entry)
    /\ VaultAfter(applied)[UpdateKey(applied[1].entry)] = UpdateToken(applied[2].entry)

\* some piece of the text is a piece of the message
Contains(msg, txt) == \E j \in 1..Len(msg), k \in 1..Len(txt) : msg[j] = txt[k]

\* C18: in every handler, when a collaborator raises anything other than
\* the NotImplementedError of check_platform_supported or an OAuthError,
\* the call ends with INTERNAL and the fixed message, with success = false,
\* and neither the status details nor the response message contains the
\* text of what was raised.
C18_InternalIsGeneric ==
    \A c \in Calls :
        LET l == log[c]
        IN \A i \in 1..Len(l) :
            (l[i].result = "raise" /\ l[i].op # "check_platform_supported") =>
                /\ pc[c] = "done"
                /\ context[c] = [code |-> "INTERNAL", details |-> GenericMsg]
                /\ ~returned[c].success
                /\ ~Contains(context[c].details, l[i].out[1])
                /\ ~Contains(returned[c].message, l[i].out[1])

\* a revocation has ended on a raising revoke_token
C18_Witness ==
    \E c \in Calls :
        /\ Finished(c, "RevokeAndDeleteOAuth2Token")
        /\ log[c][Len(log[c])].op = "revoke_token"
        /\ log[c][Len(log[c])].result = "raise"
        /\ context[c].code = "INTERNAL"

\* C19: the platform under which ExchangeOAuth2CodeAndStore stores a
\* credential is a key of the registry, the name under which
\* PublishContent fetches credentials (platform_info["name"]), for every
\* request platform that passes check_platform_supported.
C19_StoredKeyIsCanonical ==
    \A c \in Calls : handler[c] = "ExchangeOAuth2CodeAndStore" =>
        \A i \in Positions(log[c], "store_entity_token") :
            /\ log[c][i].args[2] \in DOMAIN SUPPORTED_PLATFORMS
            /\ log[c][i].args[2] = Lower(request[c].platform)

====
